---- MODULE Spec2Model ----
(***************************************************************************)
(* Model of bot_ads.py: the Telegram registration dialogue (start,         *)
(* get_name, get_ra, cancel), the message relay (handle_message), the      *)
(* SQLite tables behind DatabaseManager and the retry loop of              *)
(* AIManager.get_response.                                                 *)
(*                                                                         *)
(* A text is a sequence of Unicode code points.  The dispatcher processes  *)
(* one update at a time (Application.builder() at line 480 does not enable *)
(* concurrent_updates), so a handler runs to completion before the next    *)
(* update is looked at; the only handler with intermediate states here is  *)
(* handle_message, which suspends inside get_response.                     *)
(*                                                                         *)
(* Specifications: Spec is the whole bot; SpecFlow the registration        *)
(* dialogue alone; SpecName and SpecRa deliver one generated text to the   *)
(* name step and to the code step; SpecAI runs get_response against a      *)
(* transport whose outcomes are fixed in advance; SpecRelay is the         *)
(* dialogue next to the relay with one accepted name; SpecLive adds an     *)
(* update that waits for the dispatcher, with fairness; SpecStore calls    *)
(* the methods of DatabaseManager on any table the schema allows.          *)
(***************************************************************************)
EXTENDS Integers, Sequences, FiniteSets, TLC

VARIABLES
    alunos,      \* table alunos: set of rows [aluno_id, name, ra]
    interacoes,  \* table interacoes: sequence of aluno_id, one per row
    step,        \* ConversationHandler state per user: "END", "NAME", "RA"
    user_data,   \* context.user_data per user: [name, em_cadastro]
    ai,          \* the get_response call in flight (or idle)
    script,      \* simulated transport: outcome of each attempt, <<>> = live
    pending,     \* a text waiting to be delivered (NoText = none)
    last         \* the update handled last and the replies it produced

vars == <<alunos, interacoes, step, user_data, ai, script, pending, last>>

----------------------------------------------------------------------------
(* Bounds of the model *)

NumUsers == 2
MaxInteractions == 1
MaxRuns == 3
MaxRaLen == 5

Users == 1..NumUsers

(* Program constants *)

NameMinLen == 3
NameMaxLen == 50
RaLen == 4
max_retries == 3

----------------------------------------------------------------------------
(* Characters and the str / re built-ins the validators call *)

\* str.isspace() and the regex class \s agree on these code points
SpaceChars == {9, 10, 11, 12, 13, 28, 29, 30, 31, 32, 133, 160, 5760} \cup
              (8192..8202) \cup {8232, 8233, 8239, 8287, 12288}

\* code points for which str.isdigit() is true, below U+0700: ASCII digits,
\* superscript two, three and one, Arabic-Indic and extended Arabic-Indic digits
DigitChars == (48..57) \cup {178, 179, 185} \cup (1632..1641) \cup (1776..1785)

AsciiDigits == 48..57

\* the regex class [A-Za-zÀ-ÿ\s]
NameClass == (65..90) \cup (97..122) \cup (192..255) \cup SpaceChars

\* Unicode letters among the code points below U+0180 (str.isalpha())
Letters == (65..90) \cup (97..122) \cup {170, 181, 186} \cup
           ((192..383) \ {215, 247})

RECURSIVE FirstNonSpace(_, _), LastNonSpace(_, _)
FirstNonSpace(s, i) ==
    IF i > Len(s) \/ s[i] \notin SpaceChars THEN i ELSE FirstNonSpace(s, i + 1)
LastNonSpace(s, i) ==
    IF i = 0 \/ s[i] \notin SpaceChars THEN i ELSE LastNonSpace(s, i - 1)

\* str.strip(): drops the leading and the trailing whitespace
Strip(s) == SubSeq(s, FirstNonSpace(s, 1), LastNonSpace(s, Len(s)))

\* str.lower(), exact for code points below U+0100 and for lower-case letters
LowerChar(c) ==
    IF c \in (65..90) \cup ((192..222) \ {215}) THEN c + 32 ELSE c

Lower(s) == [i \in 1..Len(s) |-> LowerChar(s[i])]

\* str.isdigit(): false for the empty string
IsDigit(s) == s # <<>> /\ \A i \in 1..Len(s) : s[i] \in DigitChars

\* re.match(r"^[A-Za-zÀ-ÿ\s]{3,50}$", s): $ also matches before a final \n
ReMatchName(s) ==
    \E n \in NameMinLen..NameMaxLen :
        /\ n = Len(s) \/ (n = Len(s) - 1 /\ s[Len(s)] = 10)
        /\ \A i \in 1..n : s[i] \in NameClass

\* "oi", "olá", "ola", "teste", "admin", "bot"
forbidden_words ==
    { <<111, 105>>, <<111, 108, 225>>, <<111, 108, 97>>,
      <<116, 101, 115, 116, 101>>, <<97, 100, 109, 105, 110>>, <<98, 111, 116>> }

validate_name(name0) ==
    LET name == Strip(name0)
    IN  IF Len(name) < NameMinLen
        THEN [ok |-> FALSE, msg |-> "NAME_TOO_SHORT"]
        ELSE IF ~ReMatchName(name)
        THEN [ok |-> FALSE, msg |-> "NAME_ONLY_LETTERS"]
        ELSE IF Lower(name) \in forbidden_words
        THEN [ok |-> FALSE, msg |-> "NAME_NOT_REAL"]
        ELSE [ok |-> TRUE, msg |-> ""]

validate_ra(ra0) ==
    LET ra == Strip(ra0)
    IN  IF ~IsDigit(ra)
        THEN [ok |-> FALSE, msg |-> "RA_ONLY_NUMBERS"]
        ELSE IF Len(ra) # RaLen
        THEN [ok |-> FALSE, msg |-> "RA_FOUR_DIGITS"]
        ELSE [ok |-> TRUE, msg |-> ""]

----------------------------------------------------------------------------
(* DatabaseManager.  rerr / werr: the statement raises sqlite3.Error *)

NoName == <<>>

\* bug variant: the duplicate query never finds a row
is_ra_registered_never(ra, current_aluno_id, rerr) == FALSE

\* bug variant: the query looks at the sender's own row only
is_ra_registered_own(ra, current_aluno_id, rerr) ==
    IF rerr THEN FALSE
    ELSE \E row \in alunos : row.ra = ra /\ row.aluno_id = current_aluno_id

is_ra_registered(ra, current_aluno_id, rerr) ==
    IF rerr THEN FALSE
    ELSE IF current_aluno_id # 0
    THEN \E row \in alunos : row.ra = ra /\ row.aluno_id # current_aluno_id
    ELSE \E row \in alunos : row.ra = ra

\* bug variant: every user counts as registered
is_user_registered_always(aluno_id, rerr) == TRUE

is_user_registered(aluno_id, rerr) ==
    IF rerr THEN FALSE
    ELSE \E row \in alunos : row.aluno_id = aluno_id

\* the display name start() greets with: the stored one, else first_name
get_user_info(aluno_id, rerr) ==
    IF rerr \/ ~\E row \in alunos : row.aluno_id = aluno_id
    THEN "first_name"
    ELSE "stored_name"

\* bug variant: a write that raises has stored the row all the same
register_user_torn(aluno_id, name, ra, werr) ==
    [ok |-> ~werr,
     rows |-> {row \in alunos : row.aluno_id # aluno_id /\ row.ra # ra}
              \cup {[aluno_id |-> aluno_id, name |-> name, ra |-> ra]}]

\* bug variant: the column ra without UNIQUE, only the primary key collides
register_user_no_unique(aluno_id, name, ra, werr) ==
    IF werr
    THEN [ok |-> FALSE, rows |-> alunos]
    ELSE [ok |-> TRUE,
          rows |-> {row \in alunos : row.aluno_id # aluno_id}
                   \cup {[aluno_id |-> aluno_id, name |-> name, ra |-> ra]}]

\* INSERT OR REPLACE: rows that collide on the primary key aluno_id or on the
\* UNIQUE column ra are deleted, then the new row is inserted
register_user(aluno_id, name, ra, werr) ==
    IF werr
    THEN [ok |-> FALSE, rows |-> alunos]
    ELSE [ok |-> TRUE,
          rows |-> {row \in alunos : row.aluno_id # aluno_id /\ row.ra # ra}
                   \cup {[aluno_id |-> aluno_id, name |-> name, ra |-> ra]}]

register_interaction(aluno_id, werr) ==
    IF werr THEN interacoes ELSE Append(interacoes, aluno_id)

----------------------------------------------------------------------------
(* Inputs *)

NoText == <<>>

T_Ana  == <<65, 110, 97>>            \* "Ana"
T_Bia  == <<66, 105, 97>>            \* "Bia"
T_ola  == <<111, 108, 97>>           \* "ola"
T_1234 == <<49, 50, 51, 52>>         \* "1234"
T_5678 == <<53, 54, 55, 56>>         \* "5678"
T_12   == <<49, 50>>                 \* "12"
T_oi   == <<111, 105>>               \* "oi"
CmdStart  == <<47, 115, 116, 97, 114, 116>>        \* "/start"
CmdCancel == <<47, 99, 97, 110, 99, 101, 108>>     \* "/cancel"
CmdSobre  == <<47, 115, 111, 98, 114, 101>>        \* "/sobre"
CmdTcc    == <<47, 116, 99, 99>>                   \* "/tcc"
CmdStatus == <<47, 115, 116, 97, 116, 117, 115>>   \* "/status"
CmdOther  == <<47, 120>>                           \* "/x"

\* texts offered to the dialogue in the full system
NameTexts == {T_Ana, T_Bia, T_ola}
CodeTexts == {T_1234, T_5678, T_12}
MsgTexts  == {T_oi}

\* o l á O × ł space 1
NameAlphabet == {111, 108, 225, 79, 215, 322, 32, 49}
RunLens == {1, NameMaxLen - 1}

RECURSIVE Expand(_)
Expand(runs) ==
    IF runs = <<>> THEN <<>>
    ELSE [i \in 1..Head(runs)[2] |-> Head(runs)[1]] \o Expand(Tail(runs))

\* texts built from at most MaxRuns runs of one character each
NameInputs ==
    { Expand(r) : r \in UNION { [1..n -> NameAlphabet \X RunLens] : n \in 1..MaxRuns } }

\* 1 2 superscript-two space a
RaAlphabet == {49, 50, 178, 32, 97}
RaInputs == UNION { [1..n -> RaAlphabet] : n \in 1..MaxRaLen }

----------------------------------------------------------------------------
(* The handlers of the dialogue *)

Idle == ai.phase = "idle"

\* the record of an update: who sent what, what was answered, whether a
\* storage read or write raised, and what the update handled just before
\* was: this user's code turned down as a duplicate (afterdup), this user's
\* registration failing in the write (afterfail), another user's successful
\* registration with this same text (afterwin)
Handled(op, u, text, reply, rerr, werr) ==
    [op |-> op, user |-> u, text |-> text, reply |-> reply,
     rerr |-> rerr, werr |-> werr,
     afterdup |-> (last.user = u /\ last.reply = <<"RA_ALREADY_REGISTERED">>),
     afterfail |-> (last.user = u /\ last.reply = <<"REGISTRATION_FAILED_LATER">>),
     afterwin |-> (/\ last.op = "get_ra" /\ last.user # u
                   /\ last.reply = <<"REGISTRATION_SUCCESS", "HOW_CAN_I_HELP">>
                   /\ ~last.rerr
                   /\ Strip(last.text) = Strip(text))]

\* bug variant: ask_name does not set the in-registration flag
ask_name_noflag(d) == d

ask_name(d) == [d EXCEPT !.em_cadastro = TRUE]

\* /start is an entry point: it reaches start() only outside a conversation
start(u, rerr, rerr2) ==
    /\ Idle
    /\ step[u] = "END"
    /\ IF is_user_registered(u, rerr)
       THEN /\ last' = Handled("start", u, CmdStart,
                               <<"HELLO_AGAIN", get_user_info(u, rerr2)>>, rerr, FALSE)
            /\ UNCHANGED <<step, user_data>>
       ELSE /\ user_data' = [user_data EXCEPT ![u] = ask_name(@)]
            /\ step' = [step EXCEPT ![u] = "NAME"]
            /\ last' = Handled("start", u, CmdStart, <<"WELCOME", "ASK_NAME">>,
                               rerr, FALSE)
    /\ UNCHANGED <<alunos, interacoes, ai>>

\* bug variant: an accepted name is not written to user_data
get_name_unsaved(u, text) ==
    /\ Idle
    /\ step[u] = "NAME"
    /\ LET name == Strip(text)
           v    == validate_name(name)
       IN  IF ~v.ok
           THEN /\ last' = Handled("get_name", u, text, <<v.msg>>, FALSE, FALSE)
                /\ UNCHANGED <<step, user_data>>
           ELSE /\ user_data' = [user_data EXCEPT ![u].em_cadastro = TRUE]
                /\ step' = [step EXCEPT ![u] = "RA"]
                /\ last' = Handled("get_name", u, text, <<"ASK_RA">>, FALSE, FALSE)
    /\ UNCHANGED <<alunos, interacoes, ai>>

get_name(u, text) ==
    /\ Idle
    /\ step[u] = "NAME"
    /\ LET name == Strip(text)
           v    == validate_name(name)
       IN  IF ~v.ok
           THEN /\ last' = Handled("get_name", u, text, <<v.msg>>, FALSE, FALSE)
                /\ UNCHANGED <<step, user_data>>
           ELSE /\ user_data' = [user_data EXCEPT
                                    ![u] = [name |-> name, em_cadastro |-> TRUE]]
                /\ step' = [step EXCEPT ![u] = "RA"]
                /\ last' = Handled("get_name", u, text, <<"ASK_RA">>, FALSE, FALSE)
    /\ UNCHANGED <<alunos, interacoes, ai>>

get_ra(u, text, rerr, werr) ==
    /\ Idle
    /\ step[u] = "RA"
    /\ LET ra   == Strip(text)
           v    == validate_ra(ra)
           name == user_data[u].name
           reg  == register_user(u, name, ra, werr)
       IN  IF ~v.ok
           THEN /\ last' = Handled("get_ra", u, text, <<v.msg>>, FALSE, FALSE)
                /\ UNCHANGED <<alunos, step, user_data>>
           ELSE IF is_ra_registered(ra, u, rerr)
           THEN /\ last' = Handled("get_ra", u, text, <<"RA_ALREADY_REGISTERED">>,
                                   rerr, FALSE)
                /\ UNCHANGED <<alunos, step, user_data>>
           ELSE IF name = NoName
           THEN /\ last' = Handled("get_ra", u, text, <<"REGISTRATION_ERROR">>,
                                   rerr, FALSE)
                /\ step' = [step EXCEPT ![u] = "END"]
                /\ UNCHANGED <<alunos, user_data>>
           ELSE /\ alunos' = reg.rows
                /\ user_data' = [user_data EXCEPT ![u].em_cadastro = FALSE]
                /\ step' = [step EXCEPT ![u] = "END"]
                /\ last' = Handled("get_ra", u, text,
                                   IF reg.ok
                                   THEN <<"REGISTRATION_SUCCESS", "HOW_CAN_I_HELP">>
                                   ELSE <<"REGISTRATION_FAILED_LATER">>,
                                   rerr, werr)
    /\ UNCHANGED <<interacoes, ai>>

\* bug variant: cancel leaves the in-registration flag set
cancel_data_keep(d) == d

\* context.user_data.pop("em_cadastro", None)
cancel_data(d) == [d EXCEPT !.em_cadastro = FALSE]

\* /cancel is a fallback: it reaches cancel() only inside a conversation
cancel(u) ==
    /\ Idle
    /\ step[u] # "END"
    /\ user_data' = [user_data EXCEPT ![u] = cancel_data(@)]
    /\ step' = [step EXCEPT ![u] = "END"]
    /\ last' = Handled("cancel", u, CmdCancel, <<"CANCELLED">>, FALSE, FALSE)
    /\ UNCHANGED <<alunos, interacoes, ai>>

\* bug variant: an unrecognised command ends the sender's conversation
unknown_ending(u, cmd) ==
    /\ Idle
    /\ \/ cmd = CmdStart /\ step[u] # "END"
       \/ cmd = CmdCancel /\ step[u] = "END"
       \/ cmd = CmdOther
    /\ step' = [step EXCEPT ![u] = "END"]
    /\ last' = Handled("unknown", u, cmd, <<"UNKNOWN_COMMAND">>, FALSE, FALSE)
    /\ UNCHANGED <<alunos, interacoes, user_data, ai>>

\* a command no earlier handler takes: /start inside a conversation, /cancel
\* outside one, and any other command
unknown(u, cmd) ==
    /\ Idle
    /\ \/ cmd = CmdStart /\ step[u] # "END"
       \/ cmd = CmdCancel /\ step[u] = "END"
       \/ cmd = CmdOther
    /\ last' = Handled("unknown", u, cmd, <<"UNKNOWN_COMMAND">>, FALSE, FALSE)
    /\ UNCHANGED <<alunos, interacoes, step, user_data, ai>>

sobre(u) ==
    /\ Idle
    /\ last' = Handled("sobre", u, CmdSobre, <<"ABOUT">>, FALSE, FALSE)
    /\ UNCHANGED <<alunos, interacoes, step, user_data, ai>>

tcc_info(u) ==
    /\ Idle
    /\ last' = Handled("tcc_info", u, CmdTcc, <<"TCC_INFO">>, FALSE, FALSE)
    /\ UNCHANGED <<alunos, interacoes, step, user_data, ai>>

status(u, rerr) ==
    /\ Idle
    /\ last' = Handled("status", u, CmdStatus,
                       IF rerr THEN <<"DB_ERROR">> ELSE <<"DB_OK">>, rerr, FALSE)
    /\ UNCHANGED <<alunos, interacoes, step, user_data, ai>>

----------------------------------------------------------------------------
(* AIManager.get_response *)

\* what one attempt can meet
OutcomeKinds ==
    { "ok",              \* 2xx, choices[0].message.content is a string
      "null_content",    \* 2xx, choices[0].message.content is null
      "no_choices",      \* 2xx, an object without the key choices
      "empty_choices",   \* 2xx, choices is an empty list
      "bad_shape",       \* 2xx, indexing the body raises KeyError/IndexError/TypeError
      "bad_json",        \* 2xx, response.json() raises JSONDecodeError (a ValueError)
      "timeout",         \* httpx.TimeoutException
      "http_status",     \* raise_for_status() raises httpx.HTTPStatusError
      "request_error",   \* any other httpx.RequestError (connection failure)
      "other_error" }    \* any other Exception

Pending    == [type |-> "pending", text |-> ""]
Str(t)     == [type |-> "str", text |-> t]
PyNone     == [type |-> "NoneType", text |-> "None"]
Return(r)  == [ret |-> TRUE, result |-> r]
Retry      == [ret |-> FALSE, result |-> Pending]

\* bug variant: the attempt before the last already counts as the last
IsLastAttemptEarly(attempt) == attempt >= max_retries - 2

IsLastAttempt(attempt) == attempt = max_retries - 1

\* bug variant: the exponent starts at 1
BackoffFromOne(attempt) == 2 ^ (attempt + 1)

\* asyncio.sleep(2 ** attempt)
Backoff(attempt) == 2 ^ attempt

\* bug variant: a body without choices is retried like an unexpected error
OnResponseRetrying(kind, attempt) ==
    IF kind = "ok" THEN Return(Str("CONTENT"))
    ELSE IF IsLastAttempt(attempt) THEN Return(Str("AI_INVALID"))
    ELSE Retry

\* lines 260-264 and 283-285: a 2xx response whose body parsed
OnResponse(kind, attempt) ==
    CASE kind = "ok"            -> Return(Str("CONTENT"))
      [] kind = "null_content"  -> Return(PyNone)
      [] kind \in {"no_choices", "empty_choices"} -> Return(Str("AI_INVALID"))
      [] kind = "bad_shape"     -> Return(Str("AI_PROCESS_ERROR"))

\* bug variant: every exhausted retry reports a timeout
FinalMessageAlwaysTimeout(kind) == "AI_TIMEOUT"

\* what each retrying except clause returns on the last attempt: a literal,
\* or, for except Exception, the fixed prefix followed by str(e)
FinalMessage(kind) ==
    CASE kind = "timeout"       -> "AI_TIMEOUT"
      [] kind = "http_status"   -> "AI_UNAVAILABLE"
      [] kind = "request_error" -> "AI_CONNECTION_ERROR"
      [] kind = "bad_json"      -> "AI_UNEXPECTED_ERROR: JSONDecodeError"
      [] kind = "other_error"   -> "AI_UNEXPECTED_ERROR: Exception"

ParsedKinds == {"ok", "null_content", "no_choices", "empty_choices", "bad_shape"}

\* bug variant: the last attempt reports the failure of the attempt before
TryOnceStale(kind, attempt) ==
    IF kind \in ParsedKinds
    THEN OnResponse(kind, attempt)
    ELSE IF IsLastAttempt(attempt)
    THEN Return(Str(FinalMessage(ai.kind)))
    ELSE Retry

\* one pass through the try statement of the loop body
TryOnce(kind, attempt) ==
    IF kind \in ParsedKinds
    THEN OnResponse(kind, attempt)
    ELSE IF IsLastAttempt(attempt)
    THEN Return(Str(FinalMessage(kind)))
    ELSE Retry

AIIdle ==
    [phase |-> "idle", caller |-> 0, attempt |-> 0, attempts |-> 0,
     slept |-> <<>>, kind |-> "", result |-> Pending]

AIStart(u) == [AIIdle EXCEPT !.phase = "request", !.caller = u]

\* client.post(...) of the current attempt completes with outcome kind
AIAttempt(kind) ==
    /\ ai.phase = "request"
    /\ IF script = <<>> THEN TRUE ELSE kind = script[ai.attempt + 1]
    /\ LET b == TryOnce(kind, ai.attempt)
       IN  ai' = [ai EXCEPT !.attempts = @ + 1,
                            !.kind = kind,
                            !.phase = IF b.ret THEN "done" ELSE "sleep",
                            !.result = b.result]
    /\ UNCHANGED <<alunos, interacoes, step, user_data, last>>

\* the backoff sleep ends and the for loop advances; a loop that runs out
\* without returning makes the function return None
AISleep ==
    /\ ai.phase = "sleep"
    /\ LET next == ai.attempt + 1
       IN  ai' = [ai EXCEPT !.slept = Append(@, Backoff(ai.attempt)),
                            !.attempt = next,
                            !.phase = IF next < max_retries THEN "request" ELSE "done",
                            !.result = IF next < max_retries THEN Pending ELSE PyNone]
    /\ UNCHANGED <<alunos, interacoes, step, user_data, last>>

----------------------------------------------------------------------------
(* handle_message: reached by a text only outside a conversation *)

handle_message(u, text, rerr, werr) ==
    /\ Idle
    /\ step[u] = "END"
    /\ IF user_data[u].em_cadastro
       THEN /\ last' = Handled("handle_message", u, text, <<>>, FALSE, FALSE)
            /\ UNCHANGED <<interacoes, ai>>
       ELSE IF ~is_user_registered(u, rerr)
       THEN /\ last' = Handled("handle_message", u, text, <<"NOT_REGISTERED">>,
                               rerr, FALSE)
            /\ UNCHANGED <<interacoes, ai>>
       ELSE /\ Len(interacoes) < MaxInteractions
            /\ interacoes' = register_interaction(u, werr)
            /\ ai' = AIStart(u)
            /\ last' = Handled("handle_message", u, text, <<"PROCESSING">>,
                               rerr, werr)
    /\ UNCHANGED <<alunos, step, user_data>>

\* get_response has returned: the answer is relayed and the handler ends
handle_message_reply ==
    /\ ai.phase = "done"
    /\ last' = [last EXCEPT !.reply = Append(@, ai.result.text)]
    /\ ai' = AIIdle
    /\ UNCHANGED <<alunos, interacoes, step, user_data>>

----------------------------------------------------------------------------
(* Specifications *)

InitState ==
    /\ alunos = {}
    /\ interacoes = <<>>
    /\ step = [u \in Users |-> "END"]
    /\ user_data = [u \in Users |-> [name |-> NoName, em_cadastro |-> FALSE]]
    /\ ai = AIIdle
    /\ last = [op |-> "init", user |-> 0, text |-> NoText, reply |-> <<>>,
               rerr |-> FALSE, werr |-> FALSE, afterdup |-> FALSE,
               afterfail |-> FALSE, afterwin |-> FALSE]

\* The whole bot: every handler, any user, a live transport
Init ==
    /\ InitState
    /\ script = <<>>
    /\ pending = NoText

DoStart      == \E u \in Users, rerr \in BOOLEAN, rerr2 \in BOOLEAN : start(u, rerr, rerr2)
DoGetName    == \E u \in Users, t \in NameTexts : get_name(u, t)
DoGetRa      == \E u \in Users, t \in CodeTexts, rerr \in BOOLEAN, werr \in BOOLEAN :
                    get_ra(u, t, rerr, werr)
DoCancel     == \E u \in Users : cancel(u)
DoUnknown    == \E u \in Users, c \in {CmdStart, CmdCancel, CmdOther} : unknown(u, c)
DoSobre      == \E u \in Users : sobre(u)
DoTcc        == \E u \in Users : tcc_info(u)
DoStatus     == \E u \in Users, rerr \in BOOLEAN : status(u, rerr)
DoMessage    == \E u \in Users, t \in MsgTexts, rerr \in BOOLEAN, werr \in BOOLEAN :
                    handle_message(u, t, rerr, werr)
DoAttempt    == \E k \in OutcomeKinds : AIAttempt(k)

Next ==
    \/ DoStart /\ UNCHANGED <<script, pending>>
    \/ DoGetName /\ UNCHANGED <<script, pending>>
    \/ DoGetRa /\ UNCHANGED <<script, pending>>
    \/ DoCancel /\ UNCHANGED <<script, pending>>
    \/ DoUnknown /\ UNCHANGED <<script, pending>>
    \/ DoSobre /\ UNCHANGED <<script, pending>>
    \/ DoTcc /\ UNCHANGED <<script, pending>>
    \/ DoStatus /\ UNCHANGED <<script, pending>>
    \/ DoMessage /\ UNCHANGED <<script, pending>>
    \/ DoAttempt /\ UNCHANGED <<script, pending>>
    \/ AISleep /\ UNCHANGED <<script, pending>>
    \/ handle_message_reply /\ UNCHANGED <<script, pending>>

Spec == Init /\ [][Next]_vars

\* The registration dialogue alone: the handlers of the ConversationHandler
\* and the fallback that takes the commands it lets through
FlowUnknown == \E u \in Users, c \in {CmdStart, CmdCancel} : unknown(u, c)

NextFlow ==
    \/ DoStart /\ UNCHANGED <<script, pending>>
    \/ DoGetName /\ UNCHANGED <<script, pending>>
    \/ DoGetRa /\ UNCHANGED <<script, pending>>
    \/ DoCancel /\ UNCHANGED <<script, pending>>
    \/ FlowUnknown /\ UNCHANGED <<script, pending>>

SpecFlow == Init /\ [][NextFlow]_vars

\* One user's name step over the generated texts: the text is drawn at the
\* start and delivered once; the user may first have been through an earlier,
\* cancelled attempt
InitName ==
    /\ InitState
    /\ script = <<>>
    /\ pending \in NameInputs

NameStart   == start(1, FALSE, FALSE) /\ UNCHANGED <<script, pending>>
NameEarlier == get_name(1, T_Ana) /\ user_data[1].name = NoName
               /\ UNCHANGED <<script, pending>>
NameCancel  == cancel(1) /\ UNCHANGED <<script, pending>>
NameDeliver == /\ pending # NoText
               /\ get_name(1, pending)
               /\ pending' = NoText
               /\ UNCHANGED script

NextName == NameStart \/ NameEarlier \/ NameCancel \/ NameDeliver

SpecName == InitName /\ [][NextName]_vars

\* One user's code step over the generated texts
InitRa ==
    /\ InitState
    /\ script = <<>>
    /\ pending \in RaInputs

RaStart   == start(1, FALSE, FALSE) /\ UNCHANGED <<script, pending>>
RaName    == \E t \in {T_Ana, T_Bia} : get_name(1, t) /\ UNCHANGED <<script, pending>>
RaDeliver == /\ pending # NoText
             /\ \E rerr \in BOOLEAN, werr \in BOOLEAN : get_ra(1, pending, rerr, werr)
             /\ pending' = NoText
             /\ UNCHANGED script

NextRa == RaStart \/ RaName \/ RaDeliver

SpecRa == InitRa /\ [][NextRa]_vars

\* get_response against a simulated transport: the outcome of every attempt
\* is fixed at the start; user 1 registers and sends messages
Scripts == [1..max_retries -> OutcomeKinds]

InitAI ==
    /\ InitState
    /\ script \in Scripts
    /\ pending = NoText

AIRegister == /\ \/ start(1, FALSE, FALSE)
                 \/ get_name(1, T_Ana)
                 \/ get_ra(1, T_1234, FALSE, FALSE)
              /\ UNCHANGED <<script, pending>>
AIMessage  == handle_message(1, T_oi, FALSE, FALSE) /\ UNCHANGED <<script, pending>>

NextAI ==
    \/ AIRegister
    \/ AIMessage
    \/ DoAttempt /\ UNCHANGED <<script, pending>>
    \/ AISleep /\ UNCHANGED <<script, pending>>
    \/ handle_message_reply /\ UNCHANGED <<script, pending>>

SpecAI == InitAI /\ [][NextAI]_vars

\* The dialogue together with the relay: every handler of main(), any user,
\* storage faults, one accepted name, a live transport whose attempts either
\* answer or time out
RelayKinds == {"ok", "timeout"}

RelayName    == \E u \in Users : get_name(u, T_Ana)
RelayAttempt == \E k \in RelayKinds : AIAttempt(k)

NextRelay ==
    \/ DoStart /\ UNCHANGED <<script, pending>>
    \/ RelayName /\ UNCHANGED <<script, pending>>
    \/ DoGetRa /\ UNCHANGED <<script, pending>>
    \/ DoCancel /\ UNCHANGED <<script, pending>>
    \/ DoUnknown /\ UNCHANGED <<script, pending>>
    \/ DoSobre /\ UNCHANGED <<script, pending>>
    \/ DoTcc /\ UNCHANGED <<script, pending>>
    \/ DoStatus /\ UNCHANGED <<script, pending>>
    \/ DoMessage /\ UNCHANGED <<script, pending>>
    \/ RelayAttempt /\ UNCHANGED <<script, pending>>
    \/ AISleep /\ UNCHANGED <<script, pending>>
    \/ handle_message_reply /\ UNCHANGED <<script, pending>>

SpecRelay == Init /\ [][NextRelay]_vars

\* The order in which main() registers the handlers: the update t of user u
\* goes to the first handler that takes it
Dispatch(u, t) ==
    IF t = CmdStart
    THEN (\E rerr \in BOOLEAN, rerr2 \in BOOLEAN : start(u, rerr, rerr2)) \/ unknown(u, t)
    ELSE IF t = CmdCancel THEN cancel(u) \/ unknown(u, t)
    ELSE IF t = CmdSobre THEN sobre(u)
    ELSE IF t = CmdTcc THEN tcc_info(u)
    ELSE IF t = CmdStatus THEN \E rerr \in BOOLEAN : status(u, rerr)
    ELSE IF t = CmdOther THEN unknown(u, t)
    ELSE \/ get_name(u, t)
         \/ \E rerr \in BOOLEAN, werr \in BOOLEAN : get_ra(u, t, rerr, werr)
         \/ \E rerr \in BOOLEAN, werr \in BOOLEAN : handle_message(u, t, rerr, werr)

\* Updates waiting for the dispatcher: an update of user 1 arrives at any
\* moment, also while a handler is suspended in get_response, and waits in
\* pending until the dispatcher is free; updates are taken in order of
\* arrival, so the other users' updates are taken only when none is waiting
LiveInputs ==
    {CmdStart, CmdCancel, CmdSobre, CmdTcc, CmdStatus, CmdOther, T_Ana, T_1234, T_oi}

LiveArrive ==
    /\ pending = NoText
    /\ \E t \in LiveInputs :
          /\ (/\ t \notin {CmdStart, CmdCancel, CmdSobre, CmdTcc, CmdStatus, CmdOther}
              /\ step[1] = "END"
              /\ \E row \in alunos : row.aluno_id = 1)
             => Len(interacoes) < MaxInteractions
          /\ pending' = t
    /\ UNCHANGED <<alunos, interacoes, step, user_data, ai, script, last>>

LiveDeliver ==
    /\ pending # NoText
    /\ Dispatch(1, pending)
    /\ pending' = NoText
    /\ UNCHANGED script

LiveOthers ==
    /\ pending = NoText
    /\ \E u \in Users \ {1} :
          \/ start(u, FALSE, FALSE)
          \/ get_name(u, T_Ana)
          \/ get_ra(u, T_5678, FALSE, FALSE)
          \/ handle_message(u, T_oi, FALSE, FALSE)
    /\ UNCHANGED <<script, pending>>

LiveAttempt == RelayAttempt /\ UNCHANGED <<script, pending>>
LiveSleep   == AISleep /\ UNCHANGED <<script, pending>>
LiveReply   == handle_message_reply /\ UNCHANGED <<script, pending>>

NextLive ==
    LiveArrive \/ LiveDeliver \/ LiveOthers \/ LiveAttempt \/ LiveSleep \/ LiveReply

\* a free dispatcher takes the waiting update; every attempt of the external
\* call completes or times out; every sleep ends; a returned call is relayed
SpecLive ==
    /\ Init /\ [][NextLive]_vars
    /\ WF_vars(LiveDeliver) /\ WF_vars(LiveAttempt)
    /\ WF_vars(LiveSleep) /\ WF_vars(LiveReply)

\* DatabaseManager on its own: the table starts as any table the schema
\* allows and the methods are called with arguments from small sets
StoreNames == {T_Ana, T_Bia}
StoreCodes == {T_1234, T_5678}
StoreRows  == [aluno_id : Users, name : StoreNames, ra : StoreCodes]
Tables ==
    { t \in SUBSET StoreRows :
        \A r1, r2 \in t : (r1.ra = r2.ra \/ r1.aluno_id = r2.aluno_id) => r1 = r2 }

PyBool(b) == IF b THEN <<"True">> ELSE <<"False">>

InitStore ==
    /\ alunos \in Tables
    /\ interacoes = <<>>
    /\ step = [u \in Users |-> "END"]
    /\ user_data = [u \in Users |-> [name |-> NoName, em_cadastro |-> FALSE]]
    /\ ai = AIIdle
    /\ script = <<>>
    /\ pending = NoText
    /\ last = [op |-> "init", user |-> 0, text |-> NoText, reply |-> <<>>,
               rerr |-> FALSE, werr |-> FALSE, afterdup |-> FALSE,
               afterfail |-> FALSE, afterwin |-> FALSE]

StoreRegister ==
    \E id \in Users, name \in StoreNames, ra \in StoreCodes, werr \in BOOLEAN :
        LET reg == register_user(id, name, ra, werr)
        IN  /\ alunos' = reg.rows
            /\ last' = Handled("register_user", id, ra, PyBool(reg.ok), FALSE, werr)
            /\ UNCHANGED <<interacoes, step, user_data, ai, script, pending>>

StoreIsUser ==
    \E id \in Users, rerr \in BOOLEAN :
        /\ last' = Handled("is_user_registered", id, NoText,
                           PyBool(is_user_registered(id, rerr)), rerr, FALSE)
        /\ UNCHANGED <<alunos, interacoes, step, user_data, ai, script, pending>>

StoreIsRa ==
    \E id \in Users \cup {0}, ra \in StoreCodes, rerr \in BOOLEAN :
        /\ last' = Handled("is_ra_registered", id, ra,
                           PyBool(is_ra_registered(ra, id, rerr)), rerr, FALSE)
        /\ UNCHANGED <<alunos, interacoes, step, user_data, ai, script, pending>>

NextStore == StoreRegister \/ StoreIsUser \/ StoreIsRa

SpecStore == InitStore /\ [][NextStore]_vars

----------------------------------------------------------------------------
(* Claims about the registration dialogue (SpecFlow) *)

\* the update taken in this step is text t sent by u while in the code step
CodeStep(u) == last'.op = "get_ra" /\ last'.user = u /\ step[u] = "RA"

OwnedByOther(ra, u) == \E row \in alunos : row.ra = ra /\ row.aluno_id # u
Owned(ra) == \E row \in alunos : row.ra = ra

\* C1: with working storage, a valid code that another user's record holds is
\* turned down with the duplicate message, nothing is stored and the sender
\* stays in the code step; a valid code that no record holds is accepted: the
\* sender's record is stored with the scratch name and the dialogue ends.
C1_DuplicateThenRetry ==
    [][ \A b \in Users :
          (CodeStep(b) /\ validate_ra(last'.text).ok /\ ~last'.rerr) =>
             LET ra == Strip(last'.text)
             IN  /\ OwnedByOther(ra, b) =>
                      /\ last'.reply = <<"RA_ALREADY_REGISTERED">>
                      /\ alunos' = alunos
                      /\ step'[b] = "RA"
                      /\ user_data' = user_data
                 /\ (~Owned(ra) /\ ~last'.werr) =>
                      /\ last'.reply = <<"REGISTRATION_SUCCESS", "HOW_CAN_I_HELP">>
                      /\ {row \in alunos' : row.aluno_id = b} =
                            {[aluno_id |-> b, name |-> user_data[b].name, ra |-> ra]}
                      /\ {row \in alunos' : row.aluno_id # b} =
                            {row \in alunos : row.aluno_id # b}
                      /\ user_data[b].name # NoName
                      /\ step'[b] = "END"
      ]_vars

\* C1 witness: B, turned down for A's code just before, has now registered
\* another code while A's record stands
C1_Witness ==
    /\ last.op = "get_ra" /\ last.afterdup
    /\ last.reply = <<"REGISTRATION_SUCCESS", "HOW_CAN_I_HELP">>
    /\ \E a \in Users \ {last.user} :
          /\ [aluno_id |-> a, name |-> T_Ana, ra |-> T_1234] \in alunos
          /\ [aluno_id |-> last.user, name |-> T_Bia, ra |-> T_5678] \in alunos
    /\ step[last.user] = "END"

\* C2: a user with a stored record can run the dialogue again: /start takes
\* the user to the name step, and the user's own code, submitted with a new
\* name, is accepted and the record then holds the new name and that code.
C2_ReRegister ==
    [][ \A a \in Users :
          /\ (last'.op = "start" /\ last'.user = a /\ ~last'.rerr
                /\ \E row \in alunos : row.aluno_id = a)
             => step'[a] = "NAME"
          /\ (CodeStep(a) /\ validate_ra(last'.text).ok
                /\ ~last'.rerr /\ ~last'.werr
                /\ \E row \in alunos : row.aluno_id = a /\ row.ra = Strip(last'.text))
             => /\ [aluno_id |-> a, name |-> user_data[a].name,
                      ra |-> Strip(last'.text)] \in alunos'
                /\ step'[a] = "END"
      ]_vars

\* C3: /cancel, in whatever step it arrives, leaves the user outside the
\* dialogue with the scratch state empty (no name, no flag), and the dialogue
\* that the next /start opens begins with no name in the scratch state.
C3_CancelClears ==
    /\ (last.op = "cancel" \/ (last.op = "unknown" /\ last.text = CmdCancel)) =>
          /\ step[last.user] = "END"
          /\ user_data[last.user] = [name |-> NoName, em_cadastro |-> FALSE]
    /\ (last.op = "start" /\ step[last.user] = "NAME") =>
          user_data[last.user].name = NoName

\* C13: two users are in the code step and send the same valid, unused code.
\* Handlers run one after the other, in either order; with working storage
\* the one handled first gets the record, the other is turned down with the
\* duplicate message and stays in the code step, and the first one's record
\* stands as it was.
C13_OneWinner ==
    [][ \A a, b \in Users :
          (/\ a # b
           /\ last.op = "get_ra" /\ last.user = a
           /\ last.reply = <<"REGISTRATION_SUCCESS", "HOW_CAN_I_HELP">>
           /\ ~last.rerr
           /\ CodeStep(b) /\ ~last'.rerr
           /\ Strip(last'.text) = Strip(last.text)) =>
             LET ra == Strip(last.text)
             IN  /\ last'.reply = <<"RA_ALREADY_REGISTERED">>
                 /\ step'[b] = "RA"
                 /\ alunos' = alunos
                 /\ {row.aluno_id : row \in {r \in alunos' : r.ra = ra}} = {a}
      ]_vars

\* C13 witness: B's code was turned down right after A registered that code,
\* and A's record is the only one with it
C13_Witness ==
    /\ last.op = "get_ra" /\ last.afterwin /\ ~last.rerr
    /\ last.reply = <<"RA_ALREADY_REGISTERED">>
    /\ step[last.user] = "RA"
    /\ \E a \in Users \ {last.user} :
          {row.aluno_id : row \in {r \in alunos : r.ra = Strip(last.text)}} = {a}

\* C16: when the write of register_user fails for a valid code that no other
\* user holds, the sender gets the generic failure message, the dialogue
\* ends, the in-registration flag is cleared and the table is as before, so
\* a sender who had no record has none; the /start that this user sends
\* next opens the name step again.
C16_WriteFailure ==
    [][ \A u \in Users :
          /\ (CodeStep(u) /\ validate_ra(last'.text).ok /\ last'.werr
                 /\ ~OwnedByOther(Strip(last'.text), u)) =>
                /\ last'.reply = <<"REGISTRATION_FAILED_LATER">>
                /\ step'[u] = "END"
                /\ ~user_data'[u].em_cadastro
                /\ alunos' = alunos
          /\ (last.user = u /\ last.reply = <<"REGISTRATION_FAILED_LATER">>
                 /\ last'.user = u /\ last'.text = CmdStart
                 /\ ~\E row \in alunos : row.aluno_id = u) =>
                /\ last'.op = "start"
                /\ step'[u] = "NAME"
                /\ last'.reply = <<"WELCOME", "ASK_NAME">>
      ]_vars

\* C16 witness: a user whose registration failed in the write, and who has
\* no record, has sent /start and is in the name step again
C16_Witness ==
    /\ last.op = "start" /\ last.afterfail
    /\ step[last.user] = "NAME"
    /\ user_data[last.user].em_cadastro
    /\ ~\E row \in alunos : row.aluno_id = last.user

\* C11: /start from a user with no stored record and outside the dialogue
\* opens the name step and sends the name prompt; /start from a user who is
\* already in the name step leaves the user in the name step with the same
\* scratch state, and no record is stored.
C11_BeginIdempotent ==
    [][ \A u \in Users :
          (last'.text = CmdStart /\ last'.user = u) =>
             /\ (step[u] = "END" /\ ~\E row \in alunos : row.aluno_id = u) =>
                   /\ last'.op = "start"
                   /\ step'[u] = "NAME"
                   /\ last'.reply = <<"WELCOME", "ASK_NAME">>
                   /\ alunos' = alunos
             /\ step[u] = "NAME" =>
                   /\ step'[u] = "NAME"
                   /\ user_data'[u] = user_data[u]
                   /\ alunos' = alunos
      ]_vars

\* C11 witness: a user in the name step has sent /start again and is still
\* in the name step, with no record stored
C11_Witness ==
    /\ last.text = CmdStart /\ last.op = "unknown"
    /\ step[last.user] = "NAME"
    /\ user_data[last.user].em_cadastro
    /\ ~\E row \in alunos : row.aluno_id = last.user

\* C22: whenever a user is in the code step, the scratch name is present
\* and is the name that get_name accepted when this attempt entered the code
\* step; it stays the same while the user stays there; the missing-name
\* abort of get_ra is never taken; and the name stored with the record is
\* that name.
C22_NameInCodeStep ==
    /\ [](\A u \in Users :
            step[u] = "RA" =>
               /\ user_data[u].name # NoName
               /\ validate_name(user_data[u].name).ok)
    /\ [][ \A u \in Users :
             /\ (step[u] # "RA" /\ step'[u] = "RA") =>
                   /\ last'.op = "get_name" /\ last'.user = u
                   /\ step[u] = "NAME"
                   /\ validate_name(last'.text).ok
                   /\ user_data'[u].name = Strip(last'.text)
             /\ (step[u] = "RA" /\ step'[u] = "RA") =>
                   user_data'[u].name = user_data[u].name
             /\ CodeStep(u) =>
                   /\ last'.reply # <<"REGISTRATION_ERROR">>
                   /\ last'.reply = <<"REGISTRATION_SUCCESS", "HOW_CAN_I_HELP">> =>
                         [aluno_id |-> u, name |-> user_data[u].name,
                          ra |-> Strip(last'.text)] \in alunos'
         ]_vars

\* C22 witness: a user whose record holds the name of an earlier attempt is
\* in the code step of a new attempt with the name accepted in it
C22_Witness ==
    \E u \in Users :
       /\ step[u] = "RA"
       /\ user_data[u].name = T_Bia
       /\ \E row \in alunos : row.aluno_id = u /\ row.name = T_Ana
       /\ last.op = "get_name" /\ last.user = u /\ last.text = T_Bia

----------------------------------------------------------------------------
(* Claims about the dialogue next to the relay (SpecRelay) *)

\* C12: in every reachable state no two stored records carry the same
\* code (nor the same identifier), and is_user_registered, when its query
\* runs, answers true for exactly the users for whom a record with a name
\* and a code is stored.
C12_StoreInvariant ==
    /\ \A r1, r2 \in alunos :
          (r1.ra = r2.ra \/ r1.aluno_id = r2.aluno_id) => r1 = r2
    /\ \A u \in Users :
          is_user_registered(u, FALSE) <=>
             \E row \in alunos :
                row.aluno_id = u /\ row.name # NoName /\ row.ra # NoText

Commands == {CmdStart, CmdCancel, CmdSobre, CmdTcc, CmdStatus, CmdOther}

\* C15: get_response is called and a row of interacoes is written only for
\* a text of a user who has a stored record and is outside the dialogue; a
\* text of a user without a record, outside the dialogue, is answered with
\* the not-registered message, with no call and no row; a text sent in the
\* name step or the code step goes to the dialogue, with no call and no row.
C15_RelayOnlyRegistered ==
    [][ ai.phase = "idle" =>
          /\ (ai' # ai \/ interacoes' # interacoes) =>
                /\ last'.op = "handle_message"
                /\ last'.text \notin Commands
                /\ step[last'.user] = "END"
                /\ \E row \in alunos : row.aluno_id = last'.user
          /\ \A u \in Users :
                (last'.user = u /\ last'.text \notin Commands) =>
                   /\ (step[u] = "END" /\ ~\E row \in alunos : row.aluno_id = u) =>
                         /\ last'.op = "handle_message"
                         /\ last'.reply = <<"NOT_REGISTERED">>
                         /\ ai' = ai
                         /\ interacoes' = interacoes
                   /\ step[u] # "END" =>
                         /\ last'.op = IF step[u] = "NAME" THEN "get_name" ELSE "get_ra"
                         /\ ai' = ai
                         /\ interacoes' = interacoes
      ]_vars

\* C15 witness: a user without a record, outside the dialogue, got the
\* not-registered reply while another user holds a record; nothing was
\* called or logged
C15_Witness ==
    /\ last.op = "handle_message" /\ ~last.rerr
    /\ last.reply = <<"NOT_REGISTERED">>
    /\ step[last.user] = "END"
    /\ ~\E row \in alunos : row.aluno_id = last.user
    /\ alunos # {}
    /\ ai = AIIdle /\ interacoes = <<>>

\* C17: a stored record stays as it is, with its name and its code, through
\* every step other than a successful registration by the user it belongs
\* to.
C17_RecordFrame ==
    [][ \A row \in alunos :
          \/ row \in alunos'
          \/ /\ last'.op = "get_ra" /\ last'.user = row.aluno_id
             /\ last'.reply = <<"REGISTRATION_SUCCESS", "HOW_CAN_I_HELP">>
      ]_vars

\* a handler takes an update sent by u: a command or a text
Served(u) ==
    \/ sobre(u) \/ tcc_info(u)
    \/ \E rerr \in BOOLEAN : status(u, rerr)
    \/ \E c \in {CmdStart, CmdCancel, CmdOther} : unknown(u, c)
    \/ \E rerr \in BOOLEAN, rerr2 \in BOOLEAN : start(u, rerr, rerr2)
    \/ cancel(u)
    \/ get_name(u, T_Ana)
    \/ \E t \in CodeTexts, rerr \in BOOLEAN, werr \in BOOLEAN : get_ra(u, t, rerr, werr)
    \/ \E t \in MsgTexts, rerr \in BOOLEAN, werr \in BOOLEAN :
          handle_message(u, t, rerr, werr)

\* C14: while a get_response call sleeps between two attempts, an update
\* from any other user can be handled and answered at once.
C14_DelayBlocksOnlyCaller ==
    ai.phase = "sleep" => \A u \in Users \ {ai.caller} : ENABLED Served(u)

\* C12 witness: two users hold records, the second stored just now
C12_Witness ==
    /\ last.op = "get_ra"
    /\ last.reply = <<"REGISTRATION_SUCCESS", "HOW_CAN_I_HELP">>
    /\ \E r1, r2 \in alunos : r1.aluno_id # r2.aluno_id /\ r1.ra # r2.ra
    /\ is_user_registered(last.user, FALSE)

\* C23: in every reachable state a user's in-registration flag is set
\* exactly when the user is in the name step or the code step; hence every
\* text that handle_message takes is answered, none is dropped in silence.
C23_FlagFollowsStep ==
    /\ \A u \in Users : user_data[u].em_cadastro <=> step[u] \in {"NAME", "RA"}
    /\ last.op = "handle_message" => last.reply # <<>>

\* C23 witness: a user who went through the name step and left the dialogue
\* without a record has sent a text and got the not-registered reply
C23_Witness ==
    /\ last.op = "handle_message" /\ ~last.rerr
    /\ last.reply = <<"NOT_REGISTERED">>
    /\ step[last.user] = "END"
    /\ user_data[last.user].name # NoName
    /\ ~user_data[last.user].em_cadastro
    /\ ~\E row \in alunos : row.aluno_id = last.user

----------------------------------------------------------------------------
(* Claims about waiting updates (SpecLive) *)

\* C18: every update, a text or a command, in whatever step of the dialogue
\* and whether or not its sender has a record, is taken by a handler in the
\* end, and the handler that takes it sends its sender at least one reply.
C18_EveryUpdateAnswered ==
    /\ [][ (pending # NoText /\ pending' = NoText) =>
             /\ last'.user = 1 /\ last'.text = pending
             /\ last'.reply # <<>>
         ]_vars
    /\ (pending # NoText) ~> (pending = NoText)

\* C18 witness: an update of user 1, who is in the code step, waits while
\* the call made for another user sleeps between two attempts
C18_Witness ==
    /\ pending # NoText
    /\ step[1] = "RA"
    /\ ai.phase = "sleep" /\ ai.caller # 1

----------------------------------------------------------------------------
(* Claims about DatabaseManager (SpecStore) *)

\* C19: register_user called with a code that the record of another user
\* holds returns False and leaves the table as it was.
C19_DuplicateRejected ==
    [][ (last'.op = "register_user" /\ OwnedByOther(last'.text, last'.user)) =>
           /\ last'.reply = PyBool(FALSE)
           /\ alunos' = alunos
      ]_vars

----------------------------------------------------------------------------
(* Claims about the validators (SpecName, SpecRa) *)

\* a name as the claim describes it: trimmed, letters and whitespace only,
\* three characters or more, not a denylisted word in any letter case
LettersAndSpaces(t) ==
    LET n == Strip(t)
    IN  /\ Len(n) >= NameMinLen
        /\ \A i \in 1..Len(n) : n[i] \in Letters \cup SpaceChars
        /\ Lower(n) \notin forbidden_words

NameErrors == {<<"NAME_TOO_SHORT">>, <<"NAME_ONLY_LETTERS">>, <<"NAME_NOT_REAL">>}

\* C4: in the name step, a text of letters and whitespace, three characters
\* or longer after trimming and not denylisted, is accepted: it becomes the
\* scratch name and the code step follows; any other text is answered with
\* an error and changes neither the step nor the scratch name.
C4_NameRule ==
    [][ \A u \in Users :
          (last'.op = "get_name" /\ last'.user = u /\ step[u] = "NAME") =>
             IF LettersAndSpaces(last'.text)
             THEN /\ step'[u] = "RA"
                  /\ user_data'[u].name = Strip(last'.text)
                  /\ last'.reply = <<"ASK_RA">>
             ELSE /\ step'[u] = "NAME"
                  /\ user_data'[u].name = user_data[u].name
                  /\ last'.reply \in NameErrors
      ]_vars

\* a code as the claim describes it: trimmed, exactly four decimal digits
FourDecimalDigits(t) ==
    LET c == Strip(t)
    IN  Len(c) = RaLen /\ \A i \in 1..Len(c) : c[i] \in AsciiDigits

\* C5: in the code step, a text that is not four decimal digits after
\* trimming is turned down: the step, the scratch name and the stored
\* records stay as they were.
C5_CodeRule ==
    [][ \A u \in Users :
          (CodeStep(u) /\ ~FourDecimalDigits(last'.text)) =>
             /\ step'[u] = "RA"
             /\ user_data'[u].name = user_data[u].name
             /\ alunos' = alunos
      ]_vars

----------------------------------------------------------------------------
(* Claims about get_response (SpecAI) *)

EveryAttempt(kind) == [i \in 1..max_retries |-> kind]

IsPrefix(s, t) == Len(s) <= Len(t) /\ SubSeq(t, 1, Len(s)) = s

Relayed(msg) ==
    (last.op = "handle_message" /\ Len(last.reply) = 2) => last.reply[2] = msg

\* the course of a call whose every attempt fails in the same retrying way:
\* one second of sleep after the first attempt, two after the second, none
\* after the third, which returns msg
ThreeAttemptsThen(msg) ==
    /\ ai.attempts <= 3
    /\ IsPrefix(ai.slept, <<1, 2>>)
    /\ ai.phase = "request" => Len(ai.slept) = ai.attempts
    /\ ai.phase = "sleep" => Len(ai.slept) = ai.attempts - 1
    /\ ai.phase = "done" =>
          /\ ai.attempts = 3
          /\ ai.slept = <<1, 2>>
          /\ ai.result = Str(msg)
    /\ Relayed(msg)

\* C6: when every attempt times out, get_response makes three attempts,
\* sleeps 1 s before the second and 2 s before the third, does not sleep
\* after the third and returns the timeout message.
C6_AlwaysTimeout ==
    script = EveryAttempt("timeout") => ThreeAttemptsThen("AI_TIMEOUT")

\* C6 witness: the third timed-out attempt has returned
C6_Witness ==
    /\ script = EveryAttempt("timeout")
    /\ ai.phase = "done" /\ ai.attempts = 3 /\ ai.slept = <<1, 2>>
    /\ ai.result = Str("AI_TIMEOUT")

\* C7: when the first attempt gets a 2xx body without choices, or with an
\* empty choices list, get_response returns the invalid-response message
\* after that one attempt, without sleeping and without a second attempt.
C7_NoChoicesNoRetry ==
    script[1] \in {"no_choices", "empty_choices"} =>
       /\ ai.attempts <= 1
       /\ ai.slept = <<>>
       /\ ai.attempts = 1 => (ai.phase = "done" /\ ai.result = Str("AI_INVALID"))
       /\ Relayed("AI_INVALID")

\* C7 witness: the call has returned after its first attempt met no choices
C7_Witness ==
    /\ script[1] = "no_choices"
    /\ ai.phase = "done" /\ ai.attempts = 1 /\ ai.kind = "no_choices"
    /\ ai.result = Str("AI_INVALID")

\* C8: when every attempt gets a non-2xx status, get_response makes three
\* attempts with the sleeps of the timeout case (1 s, then 2 s) and returns
\* the service-unavailable message.
C8_AlwaysBadStatus ==
    script = EveryAttempt("http_status") => ThreeAttemptsThen("AI_UNAVAILABLE")

\* C8 witness: the third refused attempt has returned
C8_Witness ==
    /\ script = EveryAttempt("http_status")
    /\ ai.phase = "done" /\ ai.attempts = 3 /\ ai.slept = <<1, 2>>
    /\ ai.result = Str("AI_UNAVAILABLE")

\* C9: whatever the attempts meet, get_response ends within three attempts
\* and what it returns is a text.
C9_ReturnsText ==
    /\ ai.attempts <= max_retries
    /\ ai.phase = "done" => ai.result.type = "str"

MalformedKinds == {"no_choices", "empty_choices", "bad_shape", "bad_json"}

\* C10: an attempt that gets a 2xx response with a malformed body (no
\* choices, empty choices, a candidate without message or content, a body
\* that does not parse) ends the call there with a malformed-response
\* message: no sleep and no further attempt follows it.
C10_MalformedNoRetry ==
    ai.kind \in MalformedKinds =>
       /\ ai.phase = "done"
       /\ ai.result \in {Str("AI_INVALID"), Str("AI_PROCESS_ERROR")}

\* the failures after which the loop sleeps and tries again
RetryableKinds == {"timeout", "http_status", "request_error", "other_error", "bad_json"}

\* attempt k is the first to get a well-formed answer, after k-1 failures
FirstOk(k) ==
    script[k] = "ok" /\ \A i \in 1..(k - 1) : script[i] \in RetryableKinds

\* the first n backoff delays: 2^0 .. 2^(n-1)
Delays(n) == [i \in 1..n |-> 2 ^ (i - 1)]

\* C20: when attempt k (1, 2 or 3) is the first to get a well-formed 2xx
\* answer, after k-1 retried failures, get_response returns the content of
\* that answer after exactly k attempts, having slept 2^0 .. 2^(k-2)
\* seconds; no attempt and no sleep follows.
C20_SuccessAtK ==
    \A k \in 1..max_retries :
       FirstOk(k) =>
          /\ ai.attempts <= k
          /\ IsPrefix(ai.slept, Delays(k - 1))
          /\ ai.phase = "sleep" => ai.attempts < k
          /\ ai.phase = "done" =>
                /\ ai.attempts = k
                /\ ai.slept = Delays(k - 1)
                /\ ai.result = Str("CONTENT")
          /\ Relayed("CONTENT")

\* C20 witness: the third attempt answered, after a timeout and a connection
\* failure, and the call has returned the content
C20_Witness ==
    /\ script = <<"timeout", "request_error", "ok">>
    /\ ai.phase = "done" /\ ai.attempts = 3 /\ ai.slept = <<1, 2>>
    /\ ai.kind = "ok" /\ ai.result = Str("CONTENT")

\* the message of each retried failure, as the except clauses word it
KindMessage(kind) ==
    CASE kind = "timeout"       -> "AI_TIMEOUT"
      [] kind = "request_error" -> "AI_CONNECTION_ERROR"
      [] kind = "http_status"   -> "AI_UNAVAILABLE"
      [] kind = "other_error"   -> "AI_UNEXPECTED_ERROR: Exception"
      [] kind = "bad_json"      -> "AI_UNEXPECTED_ERROR: JSONDecodeError"

AllRetryable == \A i \in 1..max_retries : script[i] \in RetryableKinds

\* C21: when all three attempts fail in a retried way, in any mix of kinds,
\* get_response makes exactly three attempts, sleeps 2^0 s after the first
\* and 2^1 s after the second and not after the third, and returns the
\* message of the failure of the third attempt, whatever the first two were.
C21_ExhaustedRetries ==
    AllRetryable =>
       /\ ThreeAttemptsThen(KindMessage(script[3]))
       /\ ai.slept \in {<<>>, <<2 ^ 0>>, <<2 ^ 0, 2 ^ 1>>}
       /\ ai.phase = "sleep" => ai.attempts < max_retries

\* C21 witness: a timeout, a refused status and a connection failure, in
\* this order, and the call has returned the connection-failure message
C21_Witness ==
    /\ script = <<"timeout", "http_status", "request_error">>
    /\ ai.phase = "done" /\ ai.attempts = 3 /\ ai.slept = <<1, 2>>
    /\ ai.kind = "request_error"
    /\ ai.result = Str("AI_CONNECTION_ERROR")

====
